---- MODULE Spec2Model ----
(***************************************************************************)
(* State codec of scryptlib: Stateful.buildState / Stateful.parseStateHex  *)
(* and the leaf codec they use.  Hex strings are modelled as sequences of  *)
(* bytes (two hex characters per byte); every hex string the code handles  *)
(* here has even length, so hex offsets 2k correspond to byte offsets k.   *)
(***************************************************************************)
EXTENDS Integers, Sequences, FiniteSets, TLC

\* ------------------------------------------------------------------ bounds
\* longest list of declared state properties drawn in Init
MaxProps == 2
\* most leading bytes a caller may lose from a script before parsing it
MaxCut == 3

\* ------------------------------------------------------- program constants
CURRENT_STATE_VERSION == 0
OP_PUSHDATA1 == 76
OP_PUSHDATA2 == 77
OP_PUSHDATA4 == 78

\* ---------------------------------------------------------------- helpers
Byte == 0..255

Last(s) == s[Len(s)]

RECURSIVE Repeat(_, _)
Repeat(b, n) == IF n <= 0 THEN <<>> ELSE <<b>> \o Repeat(b, n - 1)

RECURSIVE Flat(_)
Flat(ss) == IF ss = <<>> THEN <<>> ELSE Head(ss) \o Flat(Tail(ss))

\* a thrown exception, and a normal return of a function that may throw
Err(m) == [t |-> "error", msg |-> m]
Ok(v) == [t |-> "ok", v |-> v]
IsErr(x) == x.t = "error"

\* JavaScript values carried by leaves
JBig(n) == [t |-> "bigint", n |-> n]
JBool(b) == [t |-> "boolean", b |-> b]
JStr(s, lit) == [t |-> "string", s |-> s, lit |-> lit]
JNum(n) == [t |-> "number", n |-> n]

\* String.prototype.substr on a hex string, in bytes: a negative start counts
\* from the end (clamped at 0) and the length is clamped to what is left
substr(s, start, n) ==
  LET size == Len(s)
      st == IF start < 0 THEN (IF size + start > 0 THEN size + start ELSE 0)
            ELSE (IF start > size THEN size ELSE start)
      ln == IF n < 0 THEN 0 ELSE (IF n > size - st THEN size - st ELSE n)
  IN SubSeq(s, st + 1, st + ln)

\* ------------------------------------------------- bsv.crypto.BN / utils
\* little-endian magnitude bytes of a natural number (BN.toBuffer reversed)
RECURSIVE MagLE(_)
MagLE(n) == IF n = 0 THEN <<>> ELSE <<n % 256>> \o MagLE(n \div 256)

\* BN.toSM({endian:'little'}): signed magnitude, sign in the top bit of the
\* most significant byte; zero is the empty buffer
toSM(n) ==
  IF n = 0 THEN <<>>
  ELSE LET m == MagLE(IF n < 0 THEN -n ELSE n)
       IN IF Last(m) >= 128
          THEN m \o <<(IF n < 0 THEN 128 ELSE 0)>>
          ELSE IF n < 0 THEN [m EXCEPT ![Len(m)] = @ + 128] ELSE m

\* little-endian value of a byte string
RECURSIVE ValLE(_)
ValLE(s) == IF s = <<>> THEN 0 ELSE Head(s) + 256 * ValLE(Tail(s))

\* utils.bin2num: inverse of toSM, tolerant of zero padding
bin2num(s) ==
  IF s = <<>> THEN 0
  ELSE LET m == Last(s)
           mag == ValLE([s EXCEPT ![Len(s)] = m % 128])
       IN IF m >= 128 THEN -mag ELSE mag

\* utils.num2bin: toSM padded with zero bytes to dataLen, sign bit moved to the
\* last byte; throws when the number does not fit
num2bin(n, dataLen) ==
  LET s == toSM(n)
  IN IF n = 0 THEN Ok(Repeat(0, dataLen))
     ELSE IF Len(s) > dataLen THEN Err("cannot fit")
     ELSE IF Len(s) = dataLen THEN Ok(s)
     ELSE LET m == IF n < 0 THEN Last(s) % 128 ELSE Last(s)
              pad == IF n > 0 THEN Repeat(0, dataLen - Len(s))
                     ELSE Repeat(0, dataLen - Len(s) - 1) \o <<128>>
          IN Ok([s EXCEPT ![Len(s)] = m] \o pad)

\* -------------------------------------------------------------- bsv.Script
\* Script.fromASM(hex).toHex() for one data token: the push-data element
pushData(buf) ==
  LET len == Len(buf)
  IN IF len < OP_PUSHDATA1 THEN <<len>> \o buf
     ELSE IF len < 256 THEN <<OP_PUSHDATA1, len>> \o buf
     ELSE IF len < 65536 THEN <<OP_PUSHDATA2, len % 256, len \div 256>> \o buf
     ELSE <<OP_PUSHDATA4>> \o SubSeq(MagLE(len) \o <<0, 0, 0, 0>>, 1, 4) \o buf

\* Script.fromHex(hex).chunks[0].buf: the payload of the first chunk; an
\* empty script has no chunk and a bare opcode has no buf (TypeError)
chunk0buf(hex) ==
  IF hex = <<>> THEN Err("TypeError: chunks[0] is undefined")
  ELSE LET op == hex[1]
           rest == Tail(hex)
           n1 == IF Len(rest) >= 1 THEN rest[1] ELSE 0
           n2 == IF Len(rest) >= 2 THEN ValLE(SubSeq(rest, 1, 2)) ELSE 0
           n4 == IF Len(rest) >= 4 THEN ValLE(SubSeq(rest, 1, 4)) ELSE 0
       IN IF op > 0 /\ op < OP_PUSHDATA1
            THEN IF Len(rest) < op THEN Err("Invalid script buffer")
                 ELSE Ok(SubSeq(rest, 1, op))
          ELSE IF op = OP_PUSHDATA1
            THEN IF Len(rest) < 1 + n1 THEN Err("Invalid script buffer")
                 ELSE Ok(SubSeq(rest, 2, 1 + n1))
          ELSE IF op = OP_PUSHDATA2
            THEN IF Len(rest) < 2 + n2 THEN Err("Invalid script buffer")
                 ELSE Ok(SubSeq(rest, 3, 2 + n2))
          ELSE IF op = OP_PUSHDATA4
            THEN IF Len(rest) < 4 + n4 THEN Err("Invalid script buffer")
                 ELSE Ok(SubSeq(rest, 5, 4 + n4))
          ELSE Err("TypeError: chunk has no buf")

\* ------------------------------------------------------------ ScryptType
BOOL == "bool"
INT == "int"
BYTES == "bytes"
PRIVKEY == "PrivKey"
PUBKEY == "PubKey"
SIG == "Sig"
RIPEMD160 == "Ripemd160"
SHA1 == "Sha1"
SHA256 == "Sha256"
SIGHASHTYPE == "SigHashType"
SIGHASHPREIMAGE == "SigHashPreimage"
OPCODETYPE == "OpCodeType"

\* internal.parseLiteral: value and type of a string literal; a plain hex
\* string is bytes, a PrivKey literal carries an integer
parseLiteral(x) == IF x.lit = PRIVKEY THEN <<x.s, PRIVKEY>> ELSE <<x.s, BYTES>>

\* ------------------------------------------------------ Stateful leaf codec
\* int2hex without the special case for zero
int2hexNoZeroCase(n) == pushData(toSM(n))

int2hex(n) == pushData(IF n = 0 THEN <<0>> ELSE toSM(n))

hex2int(hex) ==
  LET c == chunk0buf(hex) IN IF IsErr(c) THEN c ELSE Ok(bin2num(c.v))

bool2hex(b) == IF b THEN <<1>> ELSE <<0>>

hex2bool(hex) ==
  IF hex = <<1>> THEN Ok(TRUE)
  ELSE IF hex = <<0>> THEN Ok(FALSE)
  ELSE Err("invalid hex")

bytes2hex(b) == IF b = <<>> THEN <<0>> ELSE pushData(b)

hex2bytes(hex) == IF hex = <<0>> THEN Ok(<<>>) ELSE chunk0buf(hex)

\* toHex that wraps a boolean as a push-data element like every other leaf
toHexPushedBool(x) ==
  IF x.t = "bigint" THEN int2hex(x.n)
  ELSE IF x.t = "boolean" THEN pushData(bool2hex(x.b))
  ELSE IF x.t = "string"
    THEN LET p == parseLiteral(x)
         IN IF p[2] = PRIVKEY THEN int2hex(p[1]) ELSE bytes2hex(p[1])
  ELSE <<0>>

toHex(x) ==
  IF x.t = "bigint" THEN int2hex(x.n)
  ELSE IF x.t = "boolean" THEN bool2hex(x.b)
  ELSE IF x.t = "string"
    THEN LET p == parseLiteral(x)
         IN IF p[2] = PRIVKEY THEN int2hex(p[1]) ELSE bytes2hex(p[1])
  ELSE <<0>>

\* Stateful.serialize
serialize(x) ==
  IF x.t = "bigint" THEN (IF x.n = 0 THEN <<>> ELSE toSM(x.n))
  ELSE IF x.t = "boolean" THEN (IF x.b THEN <<1>> ELSE <<>>)
  ELSE IF x.t = "string"
    THEN LET p == parseLiteral(x)
         IN IF p[2] = PRIVKEY THEN int2hex(p[1]) ELSE p[1]
  ELSE <<>>

\* serializer.ts
serializeBool(flag) == IF flag THEN <<1>> ELSE <<0>>
serializeInt(n) == IF n = 0 THEN <<0>> ELSE toSM(n)
serializeBytes(hexStr) == hexStr
\* serialize of serializer.ts (a bigint stands for the number it holds)
serializeValue(x) ==
  IF x.t = "boolean" THEN serializeBool(x.b)
  ELSE IF x.t = "bigint" \/ x.t = "number" THEN serializeInt(x.n)
  ELSE serializeBytes(x.s)

\* Stateful.deserializer: the typed value of one leaf, or a thrown error
deserializer(type, hex) ==
  LET asInt(mk(_)) == LET r == hex2int(hex) IN IF IsErr(r) THEN r ELSE Ok(mk(r.v))
      asBytes == LET r == hex2bytes(hex) IN IF IsErr(r) THEN r ELSE Ok(JStr(r.v, "hex"))
  IN IF type = BOOL
       THEN LET r == hex2bool(hex) IN IF IsErr(r) THEN r ELSE Ok(JBool(r.v))
     ELSE IF type = INT \/ type = PRIVKEY THEN asInt(JBig)
     ELSE IF type \in {BYTES, PUBKEY, SIG, RIPEMD160, SHA1, SHA256,
                       SIGHASHPREIMAGE, OPCODETYPE} THEN asBytes
     ELSE IF type = SIGHASHTYPE THEN asInt(JNum)
     ELSE Err("cannot be cast to ScryptType")

\* ------------------------------------------------ types and flattening
TPrim(k) == [tag |-> "prim", kind |-> k]
TArray(e, n) == [tag |-> "array", elem |-> e, len |-> n]
TStruct(fs) == [tag |-> "struct", fields |-> fs]

Undefined == [t |-> "undefined"]

\* internal.flatternArg: the leaves of one argument in declaration order; a
\* struct field is named parent.field, an array element parent[index]; with
\* ignoreValue the leaves carry no value
RECURSIVE flatternArg(_, _)
flatternArg(arg, ignoreValue) ==
  IF arg.type.tag = "prim"
    THEN <<[name |-> arg.name, type |-> arg.type.kind,
            value |-> IF ignoreValue THEN Undefined ELSE arg.value]>>
  ELSE IF arg.type.tag = "array"
    THEN Flat([i \in 1..arg.type.len |->
           flatternArg([name |-> arg.name \o "[" \o ToString(i - 1) \o "]",
                        type |-> arg.type.elem,
                        value |-> IF ignoreValue THEN Undefined ELSE arg.value[i]],
                       ignoreValue)])
  ELSE Flat([i \in 1..Len(arg.type.fields) |->
           flatternArg([name |-> arg.name \o "." \o arg.type.fields[i].name,
                        type |-> arg.type.fields[i].type,
                        value |-> IF ignoreValue THEN Undefined ELSE arg.value[i]],
                       ignoreValue)])

\* args.map(arg => flatternArg(arg, ...)).flat(Infinity)
flatternArgs(args, ignoreValue) ==
  Flat([i \in 1..Len(args) |-> flatternArg(args[i], ignoreValue)])

\* ------------------------------------------------------ Stateful.buildState
\* buildState that counts the hex characters of the body, not its bytes
buildStateHexLen(args, isGen) ==
  LET args_ == flatternArgs(args, FALSE)
      state_hex == toHex(JBool(isGen))
                   \o Flat([i \in 1..Len(args_) |-> toHex(args_[i].value)])
      lenField == num2bin(Len(state_hex) * 2, 4)
      verField == num2bin(CURRENT_STATE_VERSION, 1)
  IN IF Len(args_) <= 0 THEN Err("no state property found")
     ELSE IF IsErr(lenField) THEN lenField
     ELSE Ok(state_hex \o lenField.v \o verField.v)

\* buildState that appends the hidden flag after the leaves
buildStateFlagLast(args, isGen) ==
  LET args_ == flatternArgs(args, FALSE)
      state_hex == Flat([i \in 1..Len(args_) |-> toHex(args_[i].value)])
                   \o toHex(JBool(isGen))
      lenField == num2bin(Len(state_hex), 4)
      verField == num2bin(CURRENT_STATE_VERSION, 1)
  IN IF Len(args_) <= 0 THEN Err("no state property found")
     ELSE IF IsErr(lenField) THEN lenField
     ELSE Ok(state_hex \o lenField.v \o verField.v)

\* buildState without the check for an empty leaf list
buildStateNoEmptyCheck(args, isGen) ==
  LET args_ == flatternArgs(args, FALSE)
      state_hex == toHex(JBool(isGen))
                   \o Flat([i \in 1..Len(args_) |-> toHex(args_[i].value)])
      lenField == num2bin(Len(state_hex), 4)
      verField == num2bin(CURRENT_STATE_VERSION, 1)
  IN IF IsErr(lenField) THEN lenField
     ELSE Ok(state_hex \o lenField.v \o verField.v)

buildState(args, isGen) ==
  LET args_ == flatternArgs(args, FALSE)
      state_hex == toHex(JBool(isGen))
                   \o Flat([i \in 1..Len(args_) |-> toHex(args_[i].value)])
      state_len == Len(state_hex)
      lenField == num2bin(state_len, 4)
      verField == num2bin(CURRENT_STATE_VERSION, 1)
  IN IF Len(args_) <= 0 THEN Err("no state property found")
     ELSE IF state_hex # <<>>
       THEN IF IsErr(lenField) THEN lenField
            ELSE Ok(state_hex \o lenField.v \o verField.v)
     ELSE Ok(state_hex)

\* --------------------------------------------------------- reading a body
\* BufferReader.readUInt8: the byte at pos, RangeError past the end
readUInt8(buf, pos) ==
  IF pos >= Len(buf) THEN Err("RangeError") ELSE Ok(buf[pos + 1])

\* utils.readBytes: one push-data element at pos; data is its payload and
\* next the position after it
readBytes(buf, pos) ==
  LET o == readUInt8(buf, pos)
      avail == Len(buf) - (pos + 1)
      rd(hdr, len) == IF avail < hdr + len THEN Err("readBytes: overrun")
                      ELSE Ok([data |-> SubSeq(buf, pos + 2 + hdr, pos + 1 + hdr + len),
                               next |-> pos + 1 + hdr + len])
      le(n) == ValLE(SubSeq(buf, pos + 2, pos + 1 + n))
  IN IF IsErr(o) THEN Err("readBytes: RangeError")
     ELSE IF o.v = 0 THEN Ok([data |-> <<>>, next |-> pos + 1])
     ELSE IF o.v < OP_PUSHDATA1 THEN rd(0, o.v)
     ELSE IF o.v = OP_PUSHDATA1
       THEN IF avail < 1 THEN Err("readBytes: RangeError") ELSE rd(1, le(1))
     ELSE IF o.v = OP_PUSHDATA2
       THEN IF avail < 2 THEN Err("readBytes: RangeError") ELSE rd(2, le(2))
     ELSE IF o.v = OP_PUSHDATA4
       THEN IF avail < 4 THEN Err("readBytes: RangeError") ELSE rd(4, le(4))
     ELSE LET d == num2bin(o.v - 80, 1)
          IN IF IsErr(d) THEN Err("readBytes: cannot fit")
             ELSE Ok([data |-> d.v, next |-> pos + 1])

\* the dummyArgs.forEach loop of parseStateHex: walks the body from pos and
\* sets one template entry per leaf; from/to are the bytes the leaf consumed
RECURSIVE readLeaves(_, _, _)
readLeaves(buf, pos, leaves) ==
  IF leaves = <<>> THEN Ok(<<>>)
  ELSE LET param == Head(leaves)
           key == "<" \o param.name \o ">"
       IN IF param.type = BOOL
            THEN LET o == readUInt8(buf, pos)
                     rest == readLeaves(buf, pos + 1, Tail(leaves))
                 IN IF IsErr(o) THEN o
                    ELSE IF IsErr(rest) THEN rest
                    ELSE Ok(<<[k |-> key, v |-> IF o.v = 1 THEN <<1>> ELSE <<0>>,
                               from |-> pos, to |-> pos + 1]>> \o rest.v)
          ELSE LET r == readBytes(buf, pos)
                   rest == readLeaves(buf, r.v.next, Tail(leaves))
               IN IF IsErr(r) THEN r
                  ELSE IF IsErr(rest) THEN rest
                  ELSE Ok(<<[k |-> key,
                             v |-> IF r.v.data # <<>> THEN pushData(r.v.data) ELSE <<>>,
                             from |-> pos, to |-> r.v.next]>> \o rest.v)

\* Map.has / Map.get on the template
mapHas(m, key) == \E i \in 1..Len(m) : m[i].k = key
mapGet(m, key) == m[CHOOSE i \in 1..Len(m) : m[i].k = key].v

\* deserializer.deserializeArgfromHex: every leaf of the declared argument is
\* decoded from its template entry and the values are put back into the
\* declared nested shape; the first failing leaf aborts
RECURSIVE deserializeArgfromHex(_, _)
deserializeArgfromHex(arg, m) ==
  IF arg.type.tag = "prim"
    THEN IF ~mapHas(m, "<" \o arg.name \o ">") THEN Err("cannot match the template")
         ELSE deserializer(arg.type.kind, mapGet(m, "<" \o arg.name \o ">"))
  ELSE LET n == IF arg.type.tag = "array" THEN arg.type.len ELSE Len(arg.type.fields)
           sub(i) == IF arg.type.tag = "array"
                     THEN [name |-> arg.name \o "[" \o ToString(i - 1) \o "]",
                           type |-> arg.type.elem]
                     ELSE [name |-> arg.name \o "." \o arg.type.fields[i].name,
                           type |-> arg.type.fields[i].type]
           rs == [i \in 1..n |-> deserializeArgfromHex(sub(i), m)]
           bad == {i \in 1..n : IsErr(rs[i])}
       IN IF bad # {} THEN rs[CHOOSE i \in bad : \A j \in bad : i <= j]
          ELSE Ok([i \in 1..n |-> rs[i].v])

\* --------------------------------------------------- Stateful.parseStateHex
stateBody(scriptHex) ==
  LET metaScript == substr(scriptHex, Len(scriptHex) - 5, 5)
      stateLen == bin2num(substr(metaScript, 0, 4))
  IN substr(scriptHex, Len(scriptHex) - 5 - stateLen, stateLen)

parseStateHex(stateProps, scriptHex) ==
  LET metaScript == substr(scriptHex, Len(scriptHex) - 5, 5)
      version == bin2num(substr(metaScript, Len(metaScript) - 1, 1))
      stateHex == stateBody(scriptHex)
      opcodenum == readUInt8(stateHex, 0)
      dummyArgs == flatternArgs(stateProps, TRUE)
      stateTemplateArgs == readLeaves(stateHex, 1, dummyArgs)
      rs == [i \in 1..Len(stateProps) |->
               deserializeArgfromHex(stateProps[i], stateTemplateArgs.v)]
      bad == {i \in 1..Len(stateProps) : IsErr(rs[i])}
  IN IF IsErr(opcodenum) THEN opcodenum
     ELSE IF IsErr(stateTemplateArgs) THEN stateTemplateArgs
     ELSE IF bad # {} THEN rs[CHOOSE i \in bad : \A j \in bad : i <= j]
     ELSE Ok([isGenesis |-> opcodenum.v = 1,
              args |-> [i \in 1..Len(stateProps) |-> rs[i].v]])

\* ------------------------------------------- Stateful.buildDefaultStateArgs
\* the dummyArgs.forEach loop of buildDefaultStateArgs that gives boolean
\* leaves the encoding of false
hexTemplateMapBoolFalse(props) ==
  LET dummyArgs == flatternArgs(props, TRUE)
      known == {INT, PRIVKEY, BOOL, BYTES, PUBKEY, SIG, RIPEMD160, SHA1, SHA256,
                SIGHASHTYPE, SIGHASHPREIMAGE, OPCODETYPE}
      entry(p) == [k |-> "<" \o p.name \o ">",
                   v |-> IF p.type = INT \/ p.type = PRIVKEY THEN int2hex(0)
                         ELSE IF p.type = BOOL THEN bool2hex(FALSE)
                         ELSE bytes2hex(<<0>>)]
  IN IF \E i \in 1..Len(dummyArgs) : dummyArgs[i].type \notin known
       THEN Err("param has unknown type")
     ELSE Ok([i \in 1..Len(dummyArgs) |-> entry(dummyArgs[i])])

\* the dummyArgs.forEach loop of buildDefaultStateArgs: one placeholder per
\* flattened leaf, chosen by the kind of the leaf; a leaf of any other kind
\* throws
hexTemplateMap(props) ==
  LET dummyArgs == flatternArgs(props, TRUE)
      entry(p) == [k |-> "<" \o p.name \o ">",
                   v |-> IF p.type = INT \/ p.type = PRIVKEY THEN int2hex(0)
                         ELSE IF p.type = BOOL THEN bool2hex(TRUE)
                         ELSE bytes2hex(<<0>>)]
      unknown(p) == /\ ~(p.type = INT \/ p.type = PRIVKEY)
                    /\ ~(p.type = BOOL)
                    /\ ~(p.type \in {BYTES, PUBKEY, SIG, RIPEMD160, SHA1, SHA256,
                                     SIGHASHTYPE, SIGHASHPREIMAGE, OPCODETYPE})
  IN IF \E i \in 1..Len(dummyArgs) : unknown(dummyArgs[i])
       THEN Err("param has unknown type")
     ELSE Ok([i \in 1..Len(dummyArgs) |-> entry(dummyArgs[i])])

\* Stateful.buildDefaultStateArgs: the declared properties with the values
\* decoded from the placeholders
buildDefaultStateArgs(props) ==
  LET m == hexTemplateMap(props)
      rs == [i \in 1..Len(props) |-> deserializeArgfromHex(props[i], m.v)]
      bad == {i \in 1..Len(props) : IsErr(rs[i])}
  IN IF IsErr(m) THEN m
     ELSE IF bad # {} THEN rs[CHOOSE i \in bad : \A j \in bad : i <= j]
     ELSE Ok([i \in 1..Len(props) |-> rs[i].v])

\* ------------------------------------------------------------ the inputs
\* the declared types a state property may have
PropTypes ==
  { TPrim(BOOL), TPrim(INT), TPrim(BYTES),
    TArray(TPrim(PRIVKEY), 2),
    TStruct(<<[name |-> "ok", type |-> TPrim(BOOL)],
              [name |-> "data", type |-> TPrim(PUBKEY)]>>) }

IntKinds == {INT, PRIVKEY}

\* the values a leaf of a kind may hold
LeafValues(kind) ==
  IF kind = BOOL THEN {JBool(TRUE), JBool(FALSE)}
  ELSE IF kind = INT THEN {JBig(0), JBig(-1), JBig(300)}
  ELSE IF kind = PRIVKEY THEN {JBig(0), JBig(128)}
  ELSE {JStr(<<>>, "hex"), JStr(<<0>>, "hex"), JStr(Repeat(171, OP_PUSHDATA1), "hex")}

\* the value vectors of a list of types, one value per type
RECURSIVE ValuesOf(_)
RECURSIVE ValueVectors(_)
ValueVectors(types) ==
  IF types = <<>> THEN {<<>>}
  ELSE {<<v>> \o rest : v \in ValuesOf(Head(types)), rest \in ValueVectors(Tail(types))}

\* the values of a declared type: an array holds one value per element, a
\* struct one value per field
ValuesOf(type) ==
  IF type.tag = "prim" THEN LeafValues(type.kind)
  ELSE IF type.tag = "array" THEN ValueVectors([i \in 1..type.len |-> type.elem])
  ELSE ValueVectors([i \in 1..Len(type.fields) |-> type.fields[i].type])

PropName(i) == "p" \o ToString(i)

\* the declarations of at most MaxProps state properties
Declarations ==
  UNION {[1..n -> PropTypes] : n \in 0..MaxProps}

\* bytes of locking script a blob may follow
CodePrefixes == {<<>>, <<106>>, <<118, 169>>}
\* version bytes and flag bytes a foreign or damaged script may carry
OtherVersions == {1, 255}
OtherFlags == {2, 255}

\* the kind of a further property a contract under buildDefaultStateArgs may
\* declare: primitive kinds, and the name of an unbound generic parameter
FurtherKinds == {SIGHASHTYPE, SHA256, OPCODETYPE, "T"}
\* the values of a SigHashType leaf: ALL|FORKID and ANYONECANPAY|ALL|FORKID
SigHashValues == {JStr(<<65>>, "hex"), JStr(<<193>>, "hex")}

None == [t |-> "none"]

\* ------------------------------------------------------------- the state
VARIABLES stateProps, args, isGenesis, pc, built, scriptHex, parsed,
          leaf, leafHex, leafSer, leafAsm, leafVal, defaults

vars == <<stateProps, args, isGenesis, pc, built, scriptHex, parsed,
          leaf, leafHex, leafSer, leafAsm, leafVal, defaults>>

Init ==
  /\ \E d \in Declarations :
       /\ stateProps = [i \in 1..Len(d) |-> [name |-> PropName(i), type |-> d[i]]]
       /\ \E vs \in ValueVectors(d) :
            args = [i \in 1..Len(d) |->
                      [name |-> PropName(i), type |-> d[i], value |-> vs[i]]]
  /\ isGenesis \in BOOLEAN
  /\ pc = "start"
  /\ built = None
  /\ scriptHex = None
  /\ parsed = None
  /\ leaf = None
  /\ leafHex = None
  /\ leafSer = None
  /\ leafAsm = None
  /\ leafVal = None
  /\ defaults = None

\* a caller builds the state blob of the current values
BuildState ==
  /\ pc = "start"
  /\ built' = buildState(args, isGenesis)
  /\ pc' = IF IsErr(built') THEN "failed" ELSE "built"
  /\ UNCHANGED <<stateProps, args, isGenesis, scriptHex, parsed,
                 leaf, leafHex, leafSer, leafAsm, leafVal, defaults>>

\* the blob is appended verbatim after the locking script
AttachScript ==
  /\ pc = "built"
  /\ \E code \in CodePrefixes : scriptHex' = Ok(code \o built.v)
  /\ pc' = "script"
  /\ UNCHANGED <<stateProps, args, isGenesis, built, parsed,
                 leaf, leafHex, leafSer, leafAsm, leafVal, defaults>>

\* a script whose trailer carries another version byte
ForeignVersion ==
  /\ pc = "built"
  /\ \E v \in OtherVersions : scriptHex' = Ok([built.v EXCEPT ![Len(built.v)] = v])
  /\ pc' = "script"
  /\ UNCHANGED <<stateProps, args, isGenesis, built, parsed,
                 leaf, leafHex, leafSer, leafAsm, leafVal, defaults>>

\* a script whose first body byte is not a boolean
ForeignFlag ==
  /\ pc = "built"
  /\ \E g \in OtherFlags : scriptHex' = Ok([built.v EXCEPT ![1] = g])
  /\ pc' = "script"
  /\ UNCHANGED <<stateProps, args, isGenesis, built, parsed,
                 leaf, leafHex, leafSer, leafAsm, leafVal, defaults>>

\* a script that lost its leading bytes
TruncateScript ==
  /\ pc = "built"
  /\ \E k \in 1..MaxCut :
       /\ k < Len(built.v)
       /\ scriptHex' = Ok(SubSeq(built.v, k + 1, Len(built.v)))
  /\ pc' = "script"
  /\ UNCHANGED <<stateProps, args, isGenesis, built, parsed,
                 leaf, leafHex, leafSer, leafAsm, leafVal, defaults>>

\* the contract parses the state out of the script
ParseStateHex ==
  /\ pc = "script"
  /\ parsed' = parseStateHex(stateProps, scriptHex.v)
  /\ pc' = "parsed"
  /\ UNCHANGED <<stateProps, args, isGenesis, built, scriptHex,
                 leaf, leafHex, leafSer, leafAsm, leafVal, defaults>>

\* one leaf value goes through the encoders
EncodeLeaf ==
  /\ pc = "start"
  /\ \E i \in 1..Len(flatternArgs(args, FALSE)) :
       LET a == flatternArgs(args, FALSE)[i]
       IN /\ leaf' = [type |-> a.type, value |-> a.value]
          /\ leafHex' = Ok(toHex(a.value))
          /\ leafSer' = Ok(serialize(a.value))
          /\ leafAsm' = Ok(serializeValue(a.value))
  /\ pc' = "encoded"
  /\ UNCHANGED <<stateProps, args, isGenesis, built, scriptHex, parsed, leafVal,
                 defaults>>

\* the encoded leaf goes through the decoder of its kind
DecodeLeaf ==
  /\ pc = "encoded"
  /\ leafVal' = deserializer(leaf.type, leafHex.v)
  /\ pc' = "decoded"
  /\ UNCHANGED <<stateProps, args, isGenesis, built, scriptHex, parsed,
                 leaf, leafHex, leafSer, leafAsm, defaults>>

\* a SigHashType value goes through the encoders
EncodeSigHashType ==
  /\ pc = "start"
  /\ \E x \in SigHashValues :
       /\ leaf' = [type |-> SIGHASHTYPE, value |-> x]
       /\ leafHex' = Ok(toHex(x))
       /\ leafSer' = Ok(serialize(x))
       /\ leafAsm' = Ok(serializeValue(x))
  /\ pc' = "encoded"
  /\ UNCHANGED <<stateProps, args, isGenesis, built, scriptHex, parsed, leafVal,
                 defaults>>

\* the default state arguments of a contract are built: the contract declares
\* the state properties, possibly followed by one of a further kind
BuildDefaultStateArgs ==
  /\ pc = "start"
  /\ \E props \in {stateProps} \cup
                  {Append(stateProps, [name |-> PropName(Len(stateProps) + 1),
                                       type |-> TPrim(k)]) : k \in FurtherKinds} :
       defaults' = [stateProps |-> props,
                    map |-> hexTemplateMap(props),
                    args |-> buildDefaultStateArgs(props)]
  /\ pc' = "defaulted"
  /\ UNCHANGED <<stateProps, args, isGenesis, built, scriptHex, parsed,
                 leaf, leafHex, leafSer, leafAsm, leafVal>>

Next ==
  \/ BuildState
  \/ AttachScript
  \/ ForeignVersion
  \/ ForeignFlag
  \/ TruncateScript
  \/ ParseStateHex
  \/ EncodeLeaf
  \/ DecodeLeaf
  \/ EncodeSigHashType
  \/ BuildDefaultStateArgs

Spec == Init /\ [][Next]_vars

\* ------------------------------------------------------------ properties
\* the flattened leaves of the values handed to buildState
leavesOf == flatternArgs(args, FALSE)

\* the script under parse is a locking script followed by the built blob
FromBuild ==
  /\ pc = "parsed"
  /\ \E code \in CodePrefixes : scriptHex.v = code \o built.v

\* the values a parse returned, flattened like the declared properties
parsedLeaves ==
  flatternArgs([i \in 1..Len(stateProps) |->
                  [name |-> stateProps[i].name, type |-> stateProps[i].type,
                   value |-> parsed.v.args[i]]], FALSE)

\* the length field of the trailer as the parser reads it
trailerLen(script) == bin2num(substr(substr(script, Len(script) - 5, 5), 0, 4))

RECURSIVE SumLen(_)
SumLen(ss) == IF ss = <<>> THEN 0 ELSE Len(Head(ss)) + SumLen(Tail(ss))

IsEmptyBytes(x) == x.t = "string" /\ x.s = <<>>

\* C1: parsing the blob built from a value assignment returns exactly the
\* isGenesis flag and the values it was built from
RoundTrip ==
  FromBuild =>
    parsed = Ok([isGenesis |-> isGenesis,
                 args |-> [i \in 1..Len(args) |-> args[i].value]])

\* C1, the part the code keeps: the round trip of every assignment that
\* holds no empty byte string
RoundTripNonEmpty ==
  (FromBuild /\ \A i \in 1..Len(leavesOf) : ~IsEmptyBytes(leavesOf[i].value)) =>
    parsed = Ok([isGenesis |-> isGenesis,
                 args |-> [i \in 1..Len(args) |-> args[i].value]])

\* C2: a built blob is body, then the byte count of the body (the flag byte
\* and every encoded leaf) as 4 little-endian bytes, then the version byte 0
TrailerExact ==
  (built # None /\ ~IsErr(built)) =>
    LET b == built.v
        n == Len(b)
    IN /\ n >= 6
       /\ b[n] = 0
       /\ ValLE(SubSeq(b, n - 4, n - 1)) = n - 5
       /\ n - 5 = 1 + SumLen([i \in 1..Len(leavesOf) |-> toHex(leavesOf[i].value)])

\* C2 witness: a built blob whose body needs the whole low length byte
TrailerExactWitness ==
  /\ pc = "built"
  /\ Len(built.v) - 5 >= 128
  /\ built.v[Len(built.v) - 4] = Len(built.v) - 5

\* C3: a script whose version byte is not 0 is never parsed into values
VersionRejected ==
  (pc = "parsed" /\ Last(scriptHex.v) # CURRENT_STATE_VERSION) => IsErr(parsed)

\* C4: a script shorter than the body length its trailer announces plus the
\* 5 trailer bytes is never parsed into values
TruncationRejected ==
  (/\ pc = "parsed"
   /\ Len(scriptHex.v) >= 5
   /\ Len(scriptHex.v) < trailerLen(scriptHex.v) + 5) => IsErr(parsed)

\* C5: a body whose first byte is neither 0x00 nor 0x01 is never parsed into
\* values
FlagValidated ==
  (/\ pc = "parsed"
   /\ trailerLen(scriptHex.v) >= 1
   /\ Len(scriptHex.v) >= trailerLen(scriptHex.v) + 5
   /\ stateBody(scriptHex.v)[1] \notin {0, 1}) => IsErr(parsed)

\* the wire rules by kind: the payload of a leaf and its push-data element
PayloadOf(kind, value) ==
  IF kind \in IntKinds
    THEN (IF value.n = 0 THEN <<0>>
          ELSE LET a == IF value.n < 0 THEN -value.n ELSE value.n
                   m == MagLE(a)
               IN IF Last(m) >= 128 THEN m \o <<(IF value.n < 0 THEN 128 ELSE 0)>>
                  ELSE IF value.n < 0 THEN [m EXCEPT ![Len(m)] = @ + 128] ELSE m)
  ELSE value.s

PushElement(payload) ==
  IF Len(payload) <= 75 THEN <<Len(payload)>> \o payload
  ELSE IF Len(payload) <= 255 THEN <<76, Len(payload)>> \o payload
  ELSE <<77, Len(payload) % 256, Len(payload) \div 256>> \o payload

WireOf(kind, value) ==
  IF kind = BOOL THEN (IF value.b THEN <<1>> ELSE <<0>>)
  ELSE PushElement(PayloadOf(kind, value))

\* C6: the body of a built blob is the flag byte followed by the encodings
\* of the flattened leaves, each once and in flattened order
BodyLayout ==
  (built # None /\ ~IsErr(built)) =>
    LET b == built.v
        body == SubSeq(b, 1, Len(b) - 5)
    IN /\ body # <<>>
       /\ body[1] = (IF isGenesis THEN 1 ELSE 0)
       /\ Tail(body) = Flat([i \in 1..Len(leavesOf) |->
                               WireOf(leavesOf[i].type, leavesOf[i].value)])

\* C6 witness: a blob built from nested properties with leaves of several
\* kinds
BodyLayoutWitness ==
  /\ pc = "built"
  /\ Len(leavesOf) >= 3
  /\ \E i, j \in 1..Len(leavesOf) :
       /\ i < j
       /\ leavesOf[i].type # leavesOf[j].type
       /\ WireOf(leavesOf[i].type, leavesOf[i].value)
            # WireOf(leavesOf[j].type, leavesOf[j].value)

\* the template the parser reads from the body of the script under parse
walked == readLeaves(stateBody(scriptHex.v), 1, flatternArgs(stateProps, TRUE))

\* C7: parsing a built blob, the bytes the parser consumes for each leaf are
\* the bytes the builder wrote for it: one byte 0x00/0x01 for a Boolean leaf,
\* one push-data element for every other leaf, up to the end of the body
FramingAgrees ==
  FromBuild =>
    LET body == stateBody(scriptHex.v)
    IN /\ ~IsErr(walked)
       /\ Len(walked.v) = Len(leavesOf)
       /\ \A i \in 1..Len(leavesOf) :
            LET w == SubSeq(body, walked.v[i].from + 1, walked.v[i].to)
            IN /\ walked.v[i].from = (IF i = 1 THEN 1 ELSE walked.v[i - 1].to)
               /\ w = toHex(leavesOf[i].value)
               /\ w = WireOf(leavesOf[i].type, leavesOf[i].value)
               /\ leavesOf[i].type = BOOL => Len(w) = 1
       /\ (IF leavesOf = <<>> THEN 1 ELSE walked.v[Len(leavesOf)].to) = Len(body)

\* C7 witness: a parsed blob with a Boolean leaf behind a push-data leaf of
\* more than 75 bytes
FramingAgreesWitness ==
  /\ FromBuild
  /\ \E i, j \in 1..Len(leavesOf) :
       /\ i < j
       /\ leavesOf[i].type # BOOL
       /\ Len(toHex(leavesOf[i].value)) > OP_PUSHDATA1
       /\ leavesOf[j].type = BOOL

IsZeroInt(x) == x.t = "bigint" /\ x.n = 0

EmptyBytesMarker ==
  /\ (pc \in {"encoded", "decoded"} /\ IsEmptyBytes(leaf.value)) =>
       /\ leafHex.v = <<0>>
       /\ pc = "decoded" => leafVal = Ok(JStr(<<>>, "hex"))
  /\ (FromBuild /\ \E i \in 1..Len(leavesOf) : IsEmptyBytes(leavesOf[i].value)) =>
       /\ ~IsErr(parsed)
       /\ \A i \in 1..Len(leavesOf) :
            IsEmptyBytes(leavesOf[i].value) => IsEmptyBytes(parsedLeaves[i].value)

\* C10: buildState throws, and returns no blob, when the arguments flatten
\* to zero leaves
EmptyStateRejected ==
  (built # None /\ Len(leavesOf) = 0) => (IsErr(built) /\ pc = "failed")

\* C10 witness: buildState has been called on a contract without leaves
EmptyStateRejectedWitness ==
  /\ pc = "failed"
  /\ Len(leavesOf) = 0
  /\ built = Err("no state property found")

\* the primitive leaf kinds and the placeholder each gets in a template
PrimitiveKinds ==
  {BOOL, INT, BYTES, PRIVKEY, PUBKEY, SIG, RIPEMD160, SHA1, SHA256,
   SIGHASHTYPE, SIGHASHPREIMAGE, OPCODETYPE}

PlaceholderOf(kind) ==
  IF kind = BOOL THEN <<1>> ELSE PushElement(<<0>>)

\* C11: the template maps the name path of every flattened leaf of the
\* declared properties, in order, to the placeholder of its kind - integer
\* zero for integer and private-key leaves, true for boolean leaves, one zero
\* byte for byte-type leaves - and building it throws when a leaf is of no
\* primitive kind
TemplateByKind ==
  defaults # None =>
    LET leaves == flatternArgs(defaults.stateProps, TRUE)
    IN IF \A i \in 1..Len(leaves) : leaves[i].type \in PrimitiveKinds
         THEN /\ ~IsErr(defaults.map)
              /\ Len(defaults.map.v) = Len(leaves)
              /\ \A i \in 1..Len(leaves) :
                   /\ defaults.map.v[i].k = "<" \o leaves[i].name \o ">"
                   /\ defaults.map.v[i].v = PlaceholderOf(leaves[i].type)
                   /\ leaves[i].type \in IntKinds =>
                        defaults.map.v[i].v = WireOf(INT, JBig(0))
                   /\ leaves[i].type = BOOL =>
                        defaults.map.v[i].v = WireOf(BOOL, JBool(TRUE))
              /\ ~IsErr(defaults.args)
         ELSE IsErr(defaults.map) /\ IsErr(defaults.args)

\* C11 witness: a template built for nested properties with a boolean, an
\* integer-kind and a byte-type leaf
TemplateByKindWitness ==
  /\ pc = "defaulted"
  /\ ~IsErr(defaults.map)
  /\ \E i, j, k \in 1..Len(defaults.map.v) :
       LET leaves == flatternArgs(defaults.stateProps, TRUE)
       IN /\ leaves[i].type = BOOL
          /\ leaves[j].type = PRIVKEY
          /\ leaves[k].type \in {PUBKEY, SHA256, OPCODETYPE}
          /\ leaves[i].name # defaults.stateProps[1].name

\* the number a SigHashType value stands for
sigHashNumber(x) == ValLE(x.s)

\* C12: a SigHashType leaf is written with the Integer wire rule and decoded
\* back to the same small non-negative integer, and its placeholder in a
\* template is the Integer placeholder
SigHashIntegerRule ==
  /\ (pc \in {"encoded", "decoded"} /\ leaf.type = SIGHASHTYPE) =>
       /\ leafHex.v = WireOf(INT, JBig(sigHashNumber(leaf.value)))
       /\ pc = "decoded" =>
            /\ leafVal = Ok(JNum(sigHashNumber(leaf.value)))
            /\ leafVal.v.n >= 0
  /\ (defaults # None /\ ~IsErr(defaults.map)) =>
       LET leaves == flatternArgs(defaults.stateProps, TRUE)
       IN \A i \in 1..Len(leaves) :
            leaves[i].type = SIGHASHTYPE =>
              defaults.map.v[i].v = WireOf(INT, JBig(0))

====
